---- MODULE Spec2Model ----
(***************************************************************************)
(* The indirect-threaded Forth virtual machine of src/Forth.cpp: a 65536   *)
(* byte Memory, the registers IP, RSP and PSP, the dispatch loop of main() *)
(* and the 35 primitives of NativeFuncs.                                   *)
(*                                                                         *)
(* Memory is kept as the set of bytes that differ from the store main()    *)
(* builds (all zero, with the Init array copied to 0x2000): reading a byte *)
(* that is not in the map gives the byte of that store.                    *)
(*                                                                         *)
(* An access outside Memory[0..65535], a division by zero and an opcode    *)
(* outside NativeFuncs are undefined behaviour in C++.  The model does not *)
(* pick an outcome for them: the cycle ends in a state marked by fault,    *)
(* from which nothing more is modelled, and no property below may hold     *)
(* because of such a state.                                                *)
(***************************************************************************)
EXTENDS Integers, Sequences, FiniteSets, TLC

\* ------------------------------------------------------------------------
\* Program constants

\* make_unique<uint8_t[]>(65536)
MemSize == 65536

\* number of values of a uint16_t: IP, RSP, PSP and every cell wrap at it
Word == 65536

\* memcpy(&Memory[0x2000], Init, sizeof(Init))
ImageBase == 8192

\* sizeof(uint16_t) and sizeof(int16_t): a cell
CellSize == 2

\* sizeof(int): the type of the expression Mem<uint16_t>(IP - 2) + 2 in DOVAR
IntSize == 4

\* the two header bytes written XXX in the Init array: no such name is
\* defined in the source, and nothing the machine runs here reads them
XXX == 0

\* the array Init as the source lays it out: one dictionary entry per line
Entries ==
  <<
    \* line 99, offset 8192: DOCON
    <<0, 0, 5, 68, 79, 67, 79, 78, 1, 0, 1, 0>>
    \* line 100, offset 8204: DOVAR
  , <<0, 32, 5, 68, 79, 86, 65, 82, 1, 0, 2, 0>>
    \* line 101, offset 8216: EXIT
  , <<12, 32, 4, 69, 88, 73, 84, 3, 0>>
    \* line 102, offset 8225: DROP
  , <<24, 32, 4, 68, 82, 79, 80, 4, 0>>
    \* line 103, offset 8234: SWAP
  , <<33, 32, 4, 83, 87, 65, 80, 5, 0>>
    \* line 104, offset 8243: DUP
  , <<42, 32, 3, 68, 85, 80, 6, 0>>
    \* line 105, offset 8251: ROT
  , <<51, 32, 3, 82, 79, 84, 7, 0>>
    \* line 106, offset 8259: OVER
  , <<59, 32, 4, 79, 86, 69, 82, 8, 0>>
    \* line 107, offset 8268: +
  , <<67, 32, 1, 43, 9, 0>>
    \* line 108, offset 8274: -
  , <<76, 32, 1, 45, 10, 0>>
    \* line 109, offset 8280: *
  , <<82, 32, 1, 42, 11, 0>>
    \* line 110, offset 8286: /MOD
  , <<88, 32, 4, 47, 77, 79, 68, 12, 0>>
    \* line 111, offset 8295: =
  , <<94, 32, 1, 61, 13, 0>>
    \* line 112, offset 8301: <
  , <<103, 32, 1, 60, 14, 0>>
    \* line 113, offset 8307: AND
  , <<109, 32, 3, 65, 78, 68, 15, 0>>
    \* line 114, offset 8315: OR
  , <<115, 32, 2, 79, 82, 16, 0>>
    \* line 115, offset 8322: XOR
  , <<123, 32, 3, 88, 79, 82, 17, 0>>
    \* line 116, offset 8330: INVERT
  , <<130, 32, 6, 73, 78, 86, 69, 82, 84, 18, 0>>
    \* line 117, offset 8341: LIT
  , <<138, 32, 4, 76, 73, 84, 19, 0>>
    \* line 118, offset 8349: !
  , <<149, 32, 1, 33, 20, 0>>
    \* line 119, offset 8355: @
  , <<157, 32, 1, 64, 21, 0>>
    \* line 120, offset 8361: C!
  , <<163, 32, 2, 67, 33, 22, 0>>
    \* line 121, offset 8368: C@
  , <<169, 32, 2, 67, 64, 23, 0>>
    \* line 122, offset 8375: STATE
  , <<176, 32, 5, 83, 84, 65, 84, 69, 2, 0, 0, 0>>
    \* line 123, offset 8387: LATEST
  , <<183, 32, 6, 76, 65, 84, 69, 83, 84, 2, 0, 8, 34>>
    \* line 124, offset 8400: HERE
  , <<195, 32, 4, 72, 69, 82, 69, 2, 0, 48, 34>>
    \* line 125, offset 8411: BASE
  , <<208, 32, 4, 66, 65, 83, 69, 2, 0, 10, 0>>
    \* line 126, offset 8422: KEY
  , <<219, 32, 3, 75, 69, 89, 24, 0>>
    \* line 127, offset 8430: EMIT
  , <<230, 32, 4, 69, 77, 73, 84, 25, 0>>
    \* line 128, offset 8439: BRANCH
  , <<238, 32, 6, 66, 82, 65, 78, 67, 72, 26, 0>>
    \* line 129, offset 8450: 0BRANCH
  , <<247, 32, 7, 48, 66, 82, 65, 78, 67, 72, 27, 0>>
    \* line 130, offset 8462: DOCOL
  , <<2, 33, 5, 68, 79, 67, 79, 76, 1, 0, 0, 0>>
    \* line 131, offset 8474: >R
  , <<14, 33, 2, 62, 82, 28, 0>>
    \* line 132, offset 8481: R>
  , <<26, 33, 2, 82, 62, 29, 0>>
    \* line 133, offset 8488: +!
  , <<33, 33, 2, 43, 33, 30, 0>>
    \* line 134, offset 8495: DSP@
  , <<40, 32, 4, 68, 83, 80, 64, 31, 0>>
    \* line 135, offset 8504: DSP!
  , <<47, 32, 4, 68, 83, 80, 33, 32, 0>>
    \* line 136, offset 8513: RSP@
  , <<56, 32, 4, 82, 83, 80, 64, 33, 0>>
    \* line 137, offset 8522: RSP!
  , <<65, 32, 4, 82, 83, 80, 33, 34, 0>>
    \* line 138, offset 8531: ,
  , <<74, 33, 1, 44, 0, 0, 215, 32, 167, 32, 161, 32, 155, 32, 2, 0, 215, 32, 45, 33, 31, 32>>
    \* line 139, offset 8553: C,
  , <<83, 33, 2, 67, 44, 0, 0, 215, 32, 167, 32, 174, 32, 155, 32, 1, 0, 215, 32, 45, 33, 31, 32>>
    \* line 140, offset 8576: CMOVE
  , <<105, 33, 5, 67, 77, 79, 86, 69, 0, 0, 31, 33, 49, 32, 38, 33, 57, 32, 155, 32, 1, 0, 86, 32,
        31, 33, 12, 33, 32, 0, 57, 32, 181, 32, 31, 33, 155, 32, 1, 0, 80, 32, 49, 32, 57, 32, 38, 33,
        174, 32, 155, 32, 1, 0, 80, 32, 0, 33, 212, 255, 38, 33, 40, 32, 40, 32, 40, 32, 31, 32>>
    \* line 141, offset 8646: >CFA
  , <<128, 33, 4, 62, 67, 70, 65, 0, 0, 155, 32, 2, 0, 80, 32, 57, 32, 167, 32, 80, 32, 155, 32, 1,
        0, 80, 32, 31, 32>>
    \* line 142, offset 8675: [
  , <<198, 33, 129, 91, 0, 0, 155, 32, 0, 0, 191, 32, 161, 32, 31, 32>>
    \* line 143, offset 8691: ]
  , <<227, 33, 1, 93, 0, 0, 155, 32, 1, 0, 191, 32, 161, 32, 31, 32>>
    \* line 144, offset 8707: IMMEDIATE
  , <<243, 33, 137, 73, 77, 77, 69, 68, 73, 65, 84, 69, 0, 0, 204, 32, 167, 32, 155, 32, 2, 0, 80, 32,
        57, 32, 167, 32, 155, 32, 128, 0, 136, 32, 49, 32, 161, 32, 31, 32>>
    \* line 145, offset 8747: TIB
  , <<3, 34, 3, 84, 73, 66, 1, 0, 128, 255>>
    \* line 146, offset 8757: #TIB
  , <<43, 34, 4, 35, 84, 73, 66, 2, 0, 0, 0>>
    \* line 147, offset 8768: BLK
  , <<53, 34, 3, 66, 76, 75, 2, 0, 0, 0>>
    \* line 148, offset 8778: >IN
  , <<64, 34, 3, 62, 73, 78, 2, 0, 0, 0>>
    \* line 149, offset 8788: BL
  , <<71, 34, 2, 66, 76, 1, 0, 32, 0>>
    \* line 150, offset 8797: PAD
  , <<84, 34, 3, 80, 65, 68, 1, 0, 128, 0>>
    \* line 151, offset 8807: PARSE
  , <<93, 34, 5, 80, 65, 82, 83, 69, 0, 0, 77, 34, 167, 32, 49, 32, 77, 34, 167, 32, 60, 34, 167, 32,
        113, 32, 31, 32>>
    \* line 152, offset 8835: PARSE-WORD
  , <<XXX, 34, 10, 80, 65, 82, 83, 69, 45, 87, 79, 82, 68, 0, 0, 31, 32>>
    \* line 153, offset 8852: CREATE
  , <<XXX, 34, 6, 67, 82, 69, 65, 84, 69, 0, 0, 204, 32, 215, 32, 167, 32, 204, 32, 161, 32, 87, 33, 57,
        32, 110, 33, 215, 32, 167, 32, 49, 32, 136, 33, 20, 32, 87, 33, 31, 32>>
    \* line 155, offset 8893: :
  , <<255, 255, 1, 58, 0, 0, 255, 255, 207, 33, 22, 33, 87, 33, 32, 34, 31, 32>>
  >>

\* the entries one after the other
RECURSIVE Concat(_)
Concat(seqs) == IF seqs = <<>> THEN <<>> ELSE Head(seqs) \o Concat(Tail(seqs))

\* the bytes of the array Init
Image == Concat(Entries)

\* ------------------------------------------------------------------------
\* Integer conversions

\* conversion to uint16_t
U16(x) == x % Word

\* conversion to int16_t
Int16(x) == IF x % Word >= 32768 THEN (x % Word) - Word ELSE x % Word

\* conversion to int8_t
Int8(x) == IF x % 256 >= 128 THEN (x % 256) - 256 ELSE x % 256

\* ------------------------------------------------------------------------
\* Memory and the cell access layer.  A machine record s has the fields
\* Memory, IP, RSP, PSP of the program, Value (the local of the last
\* PStack_Pop / RStack_Pop) and ub (the undefined behaviour met so far).

\* the byte main() leaves at index i before the loop starts
Base(i) ==
    IF i >= ImageBase /\ i < ImageBase + Len(Image) THEN Image[i - ImageBase + 1] ELSE 0

\* Memory[i], for an index inside the store
ByteAt(mem, i) == IF i \in DOMAIN mem THEN mem[i] ELSE Base(i)

\* does an object of n bytes at index i lie inside the 65536 byte store
InStore(i, n) == i >= 0 /\ i + n <= MemSize

\* record an access of n bytes at index i
Touch(s, i, n) ==
    IF InStore(i, n) \/ s.ub # "none" THEN s ELSE [s EXCEPT !.ub = "oob"]

\* the n-byte little-endian object at index i, as an unsigned number (a byte
\* outside the store reads as 0 here; Touch marks the access undefined)
RECURSIVE Read(_, _, _)
Read(s, i, n) ==
    IF n = 0 THEN 0
    ELSE (IF InStore(i, 1) THEN ByteAt(s.Memory, i) ELSE 0) + 256 * Read(s, i + 1, n - 1)

PutByte(mem, i, b) ==
    IF ~InStore(i, 1) THEN mem
    ELSE IF b = Base(i) THEN [a \in (DOMAIN mem) \ {i} |-> mem[a]]
    ELSE [a \in (DOMAIN mem) \cup {i} |-> IF a = i THEN b ELSE mem[a]]

\* the n low bytes of v (two's complement when v < 0), low byte first
RECURSIVE PutBytes(_, _, _, _)
PutBytes(mem, i, n, v) ==
    IF n = 0 THEN mem
    ELSE PutBytes(PutByte(mem, i, v % 256), i + 1, n - 1, v \div 256)

\* assignment of v to the n-byte object at index i
Write(s, i, n, v) ==
    Touch([s EXCEPT !.Memory = PutBytes(@, i, n, v)], i, n)

\* Mem<T>(uint16_t addr): the index of &Memory[addr]
Mem(addr) == U16(addr)

\* PStack<T>(int16_t offset): the index of &Memory[PSP + offset]
PStack(s, offset) == s.PSP + Int16(offset)

\* RStack<T>(int16_t offset): the index of &Memory[RSP + offset]
RStack(s, offset) == s.RSP + Int16(offset)

\* PStack_Push<T>(Value), size = sizeof(T)
PStack_Push(s, Value, size) ==
    [Write(s, PStack(s, s.PSP), size, Value) EXCEPT !.PSP = U16(s.PSP + size)]

\* RStack_Push<T>(Value)
RStack_Push(s, Value, size) ==
    [Write(s, RStack(s, s.RSP), size, Value) EXCEPT !.RSP = U16(s.RSP + size)]

\* PStack_Pop<T>(): the value returned is left in the field Value
PStack_Pop(s, size) ==
    LET p == [s EXCEPT !.PSP = U16(s.PSP - size)]
    IN  [Touch(p, PStack(p, p.PSP), size) EXCEPT !.Value = Read(p, PStack(p, p.PSP), size)]

\* RStack_Pop reading the cell at offset 0 from RSP, not at offset RSP
RStack_Pop_At0(s, size) ==
    LET p == [s EXCEPT !.RSP = U16(s.RSP - size)]
    IN  [Touch(p, RStack(p, 0), size) EXCEPT !.Value = Read(p, RStack(p, 0), size)]

\* RStack_Pop<T>()
RStack_Pop(s, size) ==
    LET p == [s EXCEPT !.RSP = U16(s.RSP - size)]
    IN  [Touch(p, RStack(p, p.RSP), size) EXCEPT !.Value = Read(p, RStack(p, p.RSP), size)]

\* a read of the cell at index i
Cell(s, i) == Read(s, i, CellSize)

\* s after reading the cell at index i
Reading(s, i) == Touch(s, i, CellSize)

\* s after assigning v to the cell at index i
SetCell(s, i, v) == Write(s, i, CellSize, v)

\* ------------------------------------------------------------------------
\* The primitives, each from the machine record the dispatch loop hands it
\* (IP already advanced past the thread cell) to the record it leaves.

\* a / b rounding toward minus infinity
IntDiv_Floored(a, b) == IF b < 0 THEN (-a) \div (-b) ELSE a \div b

\* a / b of two ints: truncation toward zero
IntDiv(a, b) ==
    LET q == (IF a < 0 THEN -a ELSE a) \div (IF b < 0 THEN -b ELSE b)
    IN  IF (a < 0) = (b < 0) THEN q ELSE -q

\* a % b of two ints: the remainder of the truncating division
IntRem(a, b) == a - b * IntDiv(a, b)

\* the 16 bits of a and b combined bit by bit: op is "and", "or" or "xor"
RECURSIVE Bitwise(_, _, _, _)
Bitwise(op, a, b, n) ==
    IF n = 0 THEN 0
    ELSE LET x == a % 2
             y == b % 2
             z == IF op = "and" THEN x * y
                  ELSE IF op = "or" THEN (IF x + y > 0 THEN 1 ELSE 0)
                  ELSE (x + y) % 2
         IN  z + 2 * Bitwise(op, a \div 2, b \div 2, n - 1)

DOCOL(s) ==
    LET p == RStack_Push(s, s.IP, CellSize)
    IN  [Reading(p, Mem(p.IP - 2)) EXCEPT !.IP = U16(Cell(p, Mem(p.IP - 2)) + 2)]

\* DOCON stepping over a cell of the thread, as LIT does over its operand
DOCON_SkipsCell(s) ==
    LET target == Cell(s, Mem(s.IP - 2))
        r == Reading(Reading(s, Mem(s.IP - 2)), Mem(target + 2))
    IN  [PStack_Push(r, Cell(s, Mem(target + 2)), CellSize) EXCEPT !.IP = U16(s.IP + 2)]

DOCON(s) ==
    LET target == Cell(s, Mem(s.IP - 2))
        r == Reading(Reading(s, Mem(s.IP - 2)), Mem(target + 2))
    IN  PStack_Push(r, Cell(s, Mem(target + 2)), CellSize)

DOVAR(s) ==
    PStack_Push(Reading(s, Mem(s.IP - 2)), Cell(s, Mem(s.IP - 2)) + 2, IntSize)

EXIT(s) ==
    LET p == RStack_Pop(s, CellSize)
    IN  [p EXCEPT !.IP = p.Value]

\* DROP leaving PSP where it is
DROP_KeepsCell(s) == s

DROP(s) == [s EXCEPT !.PSP = U16(s.PSP - 2)]

SWAP(s) ==
    LET a == Cell(s, PStack(s, -2))
        b == Cell(s, PStack(s, -4))
        r == Reading(Reading(s, PStack(s, -2)), PStack(s, -4))
    IN  SetCell(SetCell(r, PStack(s, -2), b), PStack(s, -4), a)

DUP(s) ==
    PStack_Push(Reading(s, PStack(s, -2)), Cell(s, PStack(s, -2)), CellSize)

ROT(s) ==
    LET t  == Cell(s, Mem(s.PSP - 6))
        s1 == SetCell(Reading(Reading(s, Mem(s.PSP - 6)), Mem(s.PSP - 4)),
                      Mem(s.PSP - 6), Cell(s, Mem(s.PSP - 4)))
        s2 == SetCell(Reading(s1, Mem(s.PSP - 2)), Mem(s.PSP - 4), Cell(s1, Mem(s.PSP - 2)))
    IN  SetCell(s2, Mem(s.PSP - 2), t)

OVER(s) ==
    PStack_Push(Reading(s, PStack(s, -4)), Cell(s, PStack(s, -4)), CellSize)

\* ADD clamping the sum to 32767 and -32768
ADD_Saturating(s) ==
    LET p == PStack_Pop(s, CellSize)
        i == PStack(p, -2)
        sum == Int16(Cell(p, i)) + Int16(p.Value)
    IN  SetCell(Reading(p, i), i, IF sum > 32767 THEN 32767 ELSE IF sum < -32768 THEN -32768 ELSE sum)

ADD(s) ==
    LET p == PStack_Pop(s, CellSize)
        i == PStack(p, -2)
    IN  SetCell(Reading(p, i), i, Int16(Int16(Cell(p, i)) + Int16(p.Value)))

SUB(s) ==
    LET p == PStack_Pop(s, CellSize)
        i == PStack(p, -2)
    IN  SetCell(Reading(p, i), i, Int16(Int16(Cell(p, i)) - Int16(p.Value)))

MUL(s) ==
    LET p == PStack_Pop(s, CellSize)
        i == PStack(p, -2)
    IN  SetCell(Reading(p, i), i, Int16(Int16(Cell(p, i)) * Int16(p.Value)))

DIVMOD(s) ==
    LET n == Int16(Cell(s, PStack(s, -4)))
        d == Int16(Cell(s, PStack(s, -2)))
        r == Reading(Reading(s, PStack(s, -4)), PStack(s, -2))
    IN  IF d = 0
        THEN [r EXCEPT !.ub = IF @ = "none" THEN "div0" ELSE @]
        ELSE SetCell(SetCell(r, PStack(s, -4), Int16(IntRem(n, d))),
                     PStack(s, -2), Int16(IntDiv(n, d)))

EQU(s) ==
    LET p == PStack_Pop(s, CellSize)
        i == PStack(p, -2)
    IN  SetCell(Reading(p, i), i, IF Int16(Cell(p, i)) = Int16(p.Value) THEN -1 ELSE 0)

\* LT comparing the cells as unsigned
LT_Unsigned(s) ==
    LET p == PStack_Pop(s, CellSize)
        i == PStack(p, -2)
    IN  SetCell(Reading(p, i), i, IF Cell(p, i) < p.Value THEN -1 ELSE 0)

LT(s) ==
    LET p == PStack_Pop(s, CellSize)
        i == PStack(p, -2)
    IN  SetCell(Reading(p, i), i, IF Int16(Cell(p, i)) < Int16(p.Value) THEN -1 ELSE 0)

AND(s) ==
    LET p == PStack_Pop(s, CellSize)
        i == PStack(p, -2)
    IN  SetCell(Reading(p, i), i, Bitwise("and", Cell(p, i), p.Value, 16))

OR(s) ==
    LET p == PStack_Pop(s, CellSize)
        i == PStack(p, -2)
    IN  SetCell(Reading(p, i), i, Bitwise("or", Cell(p, i), p.Value, 16))

XOR(s) ==
    LET p == PStack_Pop(s, CellSize)
        i == PStack(p, -2)
    IN  SetCell(Reading(p, i), i, Bitwise("xor", Cell(p, i), p.Value, 16))

INVERT(s) ==
    LET i == PStack(s, -2)
    IN  SetCell(Reading(s, i), i, -1 - Int16(Cell(s, i)))

\* LIT leaving IP at its operand cell
LIT_KeepsIP(s) ==
    PStack_Push(Reading(s, Mem(s.IP)), Cell(s, Mem(s.IP)), CellSize)

LIT(s) ==
    LET p == PStack_Push(Reading(s, Mem(s.IP)), Cell(s, Mem(s.IP)), CellSize)
    IN  [p EXCEPT !.IP = U16(s.IP + 2)]

\* STORE writing the low byte of the cell only
STORE_LowByte(s) ==
    LET a == PStack_Pop(s, CellSize)
        v == PStack_Pop(a, CellSize)
    IN  Write(v, Mem(a.Value), 1, Int16(v.Value))

STORE(s) ==
    LET a == PStack_Pop(s, CellSize)
        v == PStack_Pop(a, CellSize)
    IN  SetCell(v, Mem(a.Value), Int16(v.Value))

FETCH(s) ==
    LET a == PStack_Pop(s, CellSize)
    IN  PStack_Push(Reading(a, Mem(a.Value)), Cell(a, Mem(a.Value)), CellSize)

STOREBYTE(s) ==
    LET a == PStack_Pop(s, CellSize)
        v == PStack_Pop(a, CellSize)
    IN  Write(v, Mem(a.Value), 1, Int8(Int16(v.Value)))

\* FETCHBYTE reading the byte as a uint8_t
FETCHBYTE_Unsigned(s) ==
    LET a == PStack_Pop(s, CellSize)
    IN  PStack_Push(Touch(a, Mem(a.Value), 1), Read(a, Mem(a.Value), 1), CellSize)

FETCHBYTE(s) ==
    LET a == PStack_Pop(s, CellSize)
    IN  PStack_Push(Touch(a, Mem(a.Value), 1), Int8(Read(a, Mem(a.Value), 1)), CellSize)

\* the cell DOCOL, DOCON and DOVAR read at IP - 2 to recover the target, in the
\* record they read it from: DOCOL reads it after RStack_Push(IP)
TargetReadBack(s, name) ==
    IF name = "DOCOL" THEN Cell(RStack_Push(s, s.IP, CellSize), Mem(s.IP - 2))
    ELSE Cell(s, Mem(s.IP - 2))

\* c is what std::wcin.get() returns
KEY(s, c) == PStack_Push(s, Int16(c), CellSize)

\* the character written is left in the field Value
EMIT(s) == PStack_Pop(s, CellSize)

\* BRANCH taking the offset relative to the cell after the offset cell
BRANCH_PastOperand(s) ==
    [Reading(s, Mem(s.IP)) EXCEPT !.IP = U16(s.IP + 2 + Int16(Cell(s, Mem(s.IP))))]

BRANCH(s) ==
    [Reading(s, Mem(s.IP)) EXCEPT !.IP = U16(s.IP + Int16(Cell(s, Mem(s.IP))))]

ZBRANCH(s) ==
    LET p == PStack_Pop(s, CellSize)
    IN  IF Int16(p.Value) = 0
        THEN [Reading(p, Mem(p.IP)) EXCEPT !.IP = U16(p.IP + Int16(Cell(p, Mem(p.IP))))]
        ELSE [p EXCEPT !.IP = U16(p.IP + 2)]

\* TOR copying the cell to the return stack and leaving it on the parameter
\* stack
TOR_Copies(s) ==
    LET p == PStack_Pop(s, CellSize)
    IN  [RStack_Push(p, Int16(p.Value), CellSize) EXCEPT !.PSP = s.PSP]

TOR(s) ==
    LET p == PStack_Pop(s, CellSize)
    IN  RStack_Push(p, Int16(p.Value), CellSize)

FROMR(s) ==
    LET p == RStack_Pop(s, CellSize)
    IN  PStack_Push(p, Int16(p.Value), CellSize)

ADD_STORE(s) ==
    LET a == PStack_Pop(s, CellSize)
        v == PStack_Pop(a, CellSize)
        i == Mem(a.Value)
    IN  SetCell(Reading(v, i), i, Int16(Int16(Cell(v, i)) + Int16(v.Value)))

DSP_FETCH(s) == PStack_Push(s, s.PSP, CellSize)

DSP_STORE(s) ==
    LET p == PStack_Pop(s, CellSize)
    IN  [p EXCEPT !.PSP = p.Value]

RSP_FETCH(s) == PStack_Push(s, s.RSP, CellSize)

RSP_STORE(s) ==
    LET p == PStack_Pop(s, CellSize)
    IN  [p EXCEPT !.RSP = p.Value]

\* ------------------------------------------------------------------------
\* The primitive table and the code fields of the image

\* NativeFuncs[id], by name: the opcode of NativeFuncs[k] is k - 1
NativeFuncs ==
    << "DOCOL", "DOCON", "DOVAR", "EXIT", "DROP", "SWAP", "DUP", "ROT", "OVER",
       "ADD", "SUB", "MUL", "DIVMOD", "EQU", "LT", "AND", "OR", "XOR", "INVERT",
       "LIT", "STORE", "FETCH", "STOREBYTE", "FETCHBYTE", "KEY", "EMIT", "BRANCH",
       "ZBRANCH", "TOR", "FROMR", "ADD_STORE", "DSP_FETCH", "DSP_STORE",
       "RSP_FETCH", "RSP_STORE" >>

\* the index of a primitive in NativeFuncs
Op(name) == (CHOOSE k \in 1..Len(NativeFuncs) : NativeFuncs[k] = name) - 1

\* the address of the code field of the image's words, as the threads of the
\* image name them (EXIT is 31, 32 = 0x201F, LIT is 155, 32 = 0x209B, ...)
CFA ==
    [ EXIT |-> 8223, DROP |-> 8232, SWAP |-> 8241, DUP |-> 8249, ROT |-> 8257,
      OVER |-> 8266, ADD |-> 8272, SUB |-> 8278, MUL |-> 8284, DIVMOD |-> 8293,
      EQU |-> 8299, LT |-> 8305, AND |-> 8313, OR |-> 8320, XOR |-> 8328,
      INVERT |-> 8339, LIT |-> 8347, STORE |-> 8353, FETCH |-> 8359,
      STOREBYTE |-> 8366, FETCHBYTE |-> 8373, LATEST |-> 8396,
      HERE |-> 8407, BASE |-> 8418, KEY |-> 8428, EMIT |-> 8437, BRANCH |-> 8448,
      ZBRANCH |-> 8460, TOR |-> 8479, FROMR |-> 8486, ADD_STORE |-> 8493,
      DSP_FETCH |-> 8502, DSP_STORE |-> 8511, RSP_FETCH |-> 8520,
      RSP_STORE |-> 8529, COMMA |-> 8535, TIB |-> 8753, BL |-> 8793, PAD |-> 8803 ]

\* the Memory address of the k-th entry of the image, which is the address of
\* its link field
EntryAt(k) == ImageBase + Len(Concat(SubSeq(Entries, 1, k - 1)))

\* the entry PARSE, counted from the first entry DOCON
ParseEntry == 53

\* ------------------------------------------------------------------------
\* The machine

VARIABLES
    Memory,     \* the bytes of Memory that differ from the store main() builds
    IP,         \* instruction pointer
    RSP,        \* return-stack pointer
    PSP,        \* parameter-stack pointer
    id,         \* the opcode the last cycle dispatched (-1 before the first)
    fault,      \* "none", or the undefined behaviour the last cycle met
    out,        \* the characters written by EMIT
    steps,      \* the number of cycles run
    hist,       \* the machine before each of the last HistLen cycles
    frames,     \* the calls entered by DOCOL and not yet left by EXIT: for each,
                \* the address A of the calling thread cell, and RSP, PSP and
                \* Memory before the call
    nested      \* only DOCOL and EXIT have moved RSP, and no EXIT lacked a call

vars == <<Memory, IP, RSP, PSP, id, fault, out, steps, hist, frames, nested>>

\* the machine record of the current state
Machine ==
    [Memory |-> Memory, IP |-> IP, RSP |-> RSP, PSP |-> PSP, Value |-> 0, ub |-> "none"]

\* main(): uint16_t id = Mem<uint16_t>(Mem<uint16_t>(IP)), read from record s
Target(s) == Cell(s, Mem(s.IP))

Opcode(s) == Cell(s, Mem(Target(s)))

\* main(): the record handed to the primitive, after IP += 2
Fetch(s) ==
    [Reading(Reading(s, Mem(s.IP)), Mem(Target(s))) EXCEPT !.IP = U16(s.IP + 2)]

\* ------------------------------------------------------------------------
\* Bounds of the model

\* the number of dispatch cycles a run is followed for
MaxSteps == 12

\* the deepest nesting of colon words in the threads below
MaxNest == 3

\* the number of earlier machine states a state remembers
HistLen == 4

\* ------------------------------------------------------------------------
\* The threads the machine is started on.  main() loads only the Init array
\* and leaves address 0, where IP starts, zero; the outermost thread belongs
\* to a more complete image.  Threads is a bounded family of such images,
\* the empty one (the program as built) among them; each is given as the
\* bytes it adds to the store main() builds.

\* where the threads below put their main thread, their words and their data
MainBase == ImageBase + 4096
WordBase == MainBase + 256
DataBase == MainBase + 4096

\* the bytes that differ from the store main() builds once the cells of the
\* sequence cells are written from address base on, low byte first
Cells(base, cells) ==
    LET byte(a) == LET c == cells[((a - base) \div 2) + 1] % Word
                   IN  IF (a - base) % 2 = 0 THEN c % 256 ELSE c \div 256
    IN  [a \in {x \in base .. (base + 2 * Len(cells) - 1) : byte(x) # Base(x)} |-> byte(a)]

\* a thread at address 0 that branches to the main thread at MainBase
Boot(main) == Cells(0, <<CFA.BRANCH, MainBase - 2>>) @@ Cells(MainBase, main)

\* the k-th colon word of the nest: word 1 runs RSP@, word k calls word k - 1
WordAt(k) == WordBase + 8 * (k - 1)

\* the colon words 1..MaxNest, one after the other from WordBase on
Words ==
    Cells(WordBase,
          [j \in 1..(4 * MaxNest) |->
              LET k == ((j - 1) \div 4) + 1
                  c == (j - 1) % 4
              IN  IF c = 0 THEN Op("DOCOL")
                  ELSE IF c = 1 THEN (IF k = 1 THEN CFA.RSP_FETCH ELSE WordAt(k - 1))
                  ELSE IF c = 2 THEN CFA.EXIT
                  ELSE 0])

\* operand values: the extremes, the signs, and the cases of /MOD
Vals == {-32768, -7, -1, 0, 1, 2, 7, 32767}

\* the primitives that pop one operand and combine it into the cell below
Binary == {"ADD", "SUB", "MUL", "EQU", "LT", "AND", "OR", "XOR"}

\* the address of PStack<T>(offset) when PSP has its initial value
AtStart(offset) == 4096 + offset

\* a is stored where the primitive reads its second operand, b is pushed
BinaryThreads ==
    { Boot(<< CFA.LIT, a, CFA.LIT, AtStart(-2), CFA.STORE, CFA.LIT, b, CFA[op] >>) :
        op \in Binary, a \in Vals, b \in Vals }

\* both operands pushed by LIT
PushedThreads ==
    { Boot(<< CFA.LIT, a, CFA.LIT, b, CFA[op] >>) :
        op \in Binary \cup {"DIVMOD"}, a \in {-7, 7, 32767}, b \in {1, 2} }

DivThreads ==
    { Boot(<< CFA.LIT, n, CFA.LIT, AtStart(-4), CFA.STORE,
              CFA.LIT, d, CFA.LIT, AtStart(-2), CFA.STORE, CFA.DIVMOD >>) :
        n \in Vals, d \in Vals }

\* a branch with offset v, and a conditional branch on x with offset v
Offsets == {-6, -2, 0, 2, 4, 6}

BranchThreads ==
    { Boot(<< CFA.BRANCH, v, CFA.LIT, 65, CFA.EMIT, CFA.KEY >>) : v \in Offsets }
    \cup { Boot(<< CFA.LIT, x, CFA.ZBRANCH, v, CFA.LIT, 65, CFA.EMIT, CFA.KEY >>) :
             x \in {-1, 0, 1, 256}, v \in Offsets }

\* nested colon words, a constant and a variable of the image
NestThreads ==
    { Boot(<< WordAt(k), CFA.BL, CFA.HERE, CFA.FETCH, WordAt(1), CFA.TIB >>) @@ Words :
        k \in 1..MaxNest }
    \cup { Boot(<< CFA.HERE, CFA.FETCH, CFA.PAD, WordAt(2) >>) @@ Words,
           Boot(<< CFA.LIT, 5, CFA.TOR, WordAt(1), CFA.FROMR, CFA.EXIT >>) @@ Words,
           Cells(0, << WordAt(2), CFA.BL >>) @@ Words,
           Cells(0, << CFA.HERE, WordAt(2), CFA.BL >>) @@ Words }

\* C! and C@ of value v at address a
ByteVals == {0, 127, 128, 255, 4660, 4863}

ByteAddrs == {DataBase, DataBase + 1, ImageBase, ImageBase + 1, ImageBase + 4, 4094, 65535}

ByteThreads ==
    { Boot(<< CFA.LIT, v, CFA.LIT, a, CFA.STOREBYTE, CFA.LIT, a, CFA.FETCHBYTE >>) :
        v \in ByteVals, a \in ByteAddrs }

\* the remaining primitives
StackThreads ==
    { Boot(<< CFA.LIT, 1, CFA.LIT, 2, CFA.LIT, 3, CFA[op], CFA.DROP >>) :
        op \in {"DROP", "SWAP", "DUP", "ROT", "OVER", "INVERT", "DSP_FETCH", "RSP_FETCH"} }
    \cup { Boot(<< CFA.LIT, 5, CFA.TOR, CFA.FROMR, CFA.EMIT >>),
           Boot(<< CFA.LIT, 7, CFA.LIT, DataBase, CFA.STORE, CFA.LIT, 32767, CFA.LIT, DataBase,
                   CFA.ADD_STORE, CFA.LIT, DataBase, CFA.FETCH >>),
           Boot(<< CFA.LIT, 16, CFA.RSP_STORE, CFA.RSP_FETCH, CFA.DSP_FETCH >>),
           Boot(<< CFA.LIT, 0, CFA.DSP_STORE, CFA.DUP >>),
           Boot(<< CFA.KEY, CFA.EMIT, CFA.KEY, CFA.DUP >>) }

\* a cell pushed by LIT, by a constant or by KEY, then DUP and DROP; PSP as
\* main() leaves it, or moved by DSP! first
StackBases == {2048, 16384, 32766}

DupDropThreads ==
    { Boot(<< CFA.LIT, v, CFA.DUP, CFA.DROP, CFA.EMIT >>) : v \in Vals }
    \cup { Boot(<< CFA.LIT, p, CFA.DSP_STORE, CFA.LIT, v, CFA.DUP, CFA.DROP, CFA.EMIT >>) :
             p \in StackBases, v \in {-1, 7} }
    \cup { Boot(<< CFA.BL, CFA.DUP, CFA.DROP, CFA.EMIT >>),
           Boot(<< CFA.KEY, CFA.DUP, CFA.DROP, CFA.EMIT >>) }

\* stack pointers at the ends of the store, and the cell at 0xFFFF
EdgeThreads ==
    { Boot(<< CFA.LIT, p, CFA.DSP_STORE, CFA[op], CFA.DROP >>) :
        p \in {0, 2, 4, 65534}, op \in {"SWAP", "DUP", "ROT", "OVER", "INVERT", "KEY"} }
    \cup { Boot(<< CFA.LIT, 65535, CFA.FETCH, CFA.DROP >>),
           Boot(<< CFA.LIT, 7, CFA.LIT, 65535, CFA.STORE, CFA.KEY >>),
           Boot(<< CFA.LIT, 7, CFA.LIT, 65535, CFA.ADD_STORE, CFA.KEY >>),
           Boot(<< CFA.LIT, 65535, CFA.RSP_STORE, CFA.LIT, 5, CFA.TOR, CFA.FROMR >>),
           Boot(<< CFA.LIT, 32767, CFA.DSP_STORE, CFA.HERE, CFA.DROP >>),
           Boot(<< CFA.BRANCH, 65535 - (MainBase + 2) >>),
           Boot(<< 65535 >>) }

\* the word , of the image called with v on the parameter stack
CommaThreads ==
    { Boot(<< CFA.LIT, v, CFA.COMMA, CFA.KEY >>) : v \in {-1, 7, 4660} }

\* a cell moved to the return stack and back, or moved there and taken as
\* the return address by EXIT
TransferThreads ==
    { Boot(<< CFA.LIT, v, CFA.TOR, CFA.FROMR, CFA.EMIT >>) : v \in Vals }
    \cup { Boot(<< CFA.LIT, MainBase + 10, CFA.TOR, CFA.EXIT, CFA.DUP, CFA.KEY, CFA.EMIT >>),
           Boot(<< CFA.LIT, 7, WordAt(1), CFA.DROP >>)
             @@ Cells(WordBase, << Op("DOCOL"), CFA.TOR, CFA.FROMR, CFA.EXIT >>) }

\* ! of v at a, then +! of n at a, then @ of a
CellVals == {-32768, -1, 7, 4660}

CellAddrs == {DataBase, DataBase + 1, ImageBase, ImageBase + 3, CFA.HERE + 2, 4094, 65534, 65535}

CellThreads ==
    { Boot(<< CFA.LIT, v, CFA.LIT, a, CFA.STORE, CFA.LIT, a, CFA.FETCH, CFA.DROP >>) :
        v \in CellVals, a \in CellAddrs }
    \cup { Boot(<< CFA.LIT, v, CFA.LIT, a, CFA.STORE, CFA.LIT, n, CFA.LIT, a, CFA.ADD_STORE,
                   CFA.LIT, a, CFA.FETCH >>) :
             v \in {-1, 32767}, n \in {-32768, 1, 2}, a \in CellAddrs }

Threads ==
    {<<>>} \cup BinaryThreads \cup PushedThreads \cup DivThreads \cup BranchThreads
           \cup NestThreads \cup ByteThreads \cup StackThreads
           \cup DupDropThreads \cup EdgeThreads
           \cup CommaThreads \cup TransferThreads \cup CellThreads

\* what std::wcin.get() can return: a character, or WEOF at the end of input
KeyInputs == {10, 65, 65535}

\* ------------------------------------------------------------------------
\* Initial state: the initialisers of IP, RSP and PSP, Memory as main() builds
\* it with one of Threads added

Init ==
    /\ Memory \in Threads
    /\ IP = 0
    /\ RSP = 0
    /\ PSP = 4096
    /\ id = -1
    /\ fault = "none"
    /\ out = <<>>
    /\ steps = 0
    /\ hist = <<>>
    /\ frames = <<>>
    /\ nested = TRUE

\* ------------------------------------------------------------------------
\* One cycle of the loop of main(): fetch, IP += 2, (*NativeFuncs[id])()

\* the machine before the cycle that dispatches opcode k
Snapshot(k) ==
    [id |-> k, Memory |-> Memory, IP |-> IP, RSP |-> RSP, PSP |-> PSP,
     frames |-> frames, nested |-> nested]

Remember(k) ==
    LET h == Append(hist, Snapshot(k))
    IN  hist' = IF Len(h) > HistLen THEN SubSeq(h, Len(h) - HistLen + 1, Len(h)) ELSE h

\* the cycle that dispatches the primitive called name and leaves record r
Run(name, r) ==
    /\ fault = "none"
    /\ steps < MaxSteps
    /\ Fetch(Machine).ub = "none"
    /\ Opcode(Machine) = Op(name)
    /\ id' = Op(name)
    /\ steps' = steps + 1
    /\ Remember(Op(name))
    /\ IF r.ub = "none"
       THEN /\ Memory' = r.Memory
            /\ IP' = r.IP
            /\ RSP' = r.RSP
            /\ PSP' = r.PSP
            /\ fault' = "none"
       ELSE /\ fault' = r.ub
            /\ UNCHANGED <<Memory, IP, RSP, PSP>>
    /\ out' = IF name = "EMIT" /\ r.ub = "none" THEN Append(out, r.Value) ELSE out
    /\ frames' = IF name = "DOCOL" THEN Append(frames, [A |-> IP, rsp |-> RSP, psp |-> PSP, Memory |-> Memory])
                 ELSE IF name = "EXIT" /\ frames # <<>> THEN SubSeq(frames, 1, Len(frames) - 1)
                 ELSE frames
    /\ nested' = (/\ nested
                  /\ name \notin {"TOR", "FROMR", "RSP_STORE"}
                  /\ ~(name = "EXIT" /\ frames = <<>>))

RunDOCOL == Run("DOCOL", DOCOL(Fetch(Machine)))
RunDOCON == Run("DOCON", DOCON(Fetch(Machine)))
RunDOVAR == Run("DOVAR", DOVAR(Fetch(Machine)))
RunEXIT == Run("EXIT", EXIT(Fetch(Machine)))
RunDROP == Run("DROP", DROP(Fetch(Machine)))
RunSWAP == Run("SWAP", SWAP(Fetch(Machine)))
RunDUP == Run("DUP", DUP(Fetch(Machine)))
RunROT == Run("ROT", ROT(Fetch(Machine)))
RunOVER == Run("OVER", OVER(Fetch(Machine)))
RunADD == Run("ADD", ADD(Fetch(Machine)))
RunSUB == Run("SUB", SUB(Fetch(Machine)))
RunMUL == Run("MUL", MUL(Fetch(Machine)))
RunDIVMOD == Run("DIVMOD", DIVMOD(Fetch(Machine)))
RunEQU == Run("EQU", EQU(Fetch(Machine)))
RunLT == Run("LT", LT(Fetch(Machine)))
RunAND == Run("AND", AND(Fetch(Machine)))
RunOR == Run("OR", OR(Fetch(Machine)))
RunXOR == Run("XOR", XOR(Fetch(Machine)))
RunINVERT == Run("INVERT", INVERT(Fetch(Machine)))
RunLIT == Run("LIT", LIT(Fetch(Machine)))
RunSTORE == Run("STORE", STORE(Fetch(Machine)))
RunFETCH == Run("FETCH", FETCH(Fetch(Machine)))
RunSTOREBYTE == Run("STOREBYTE", STOREBYTE(Fetch(Machine)))
RunFETCHBYTE == Run("FETCHBYTE", FETCHBYTE(Fetch(Machine)))
RunKEY == \E c \in KeyInputs : Run("KEY", KEY(Fetch(Machine), c))
RunEMIT == Run("EMIT", EMIT(Fetch(Machine)))
RunBRANCH == Run("BRANCH", BRANCH(Fetch(Machine)))
RunZBRANCH == Run("ZBRANCH", ZBRANCH(Fetch(Machine)))
RunTOR == Run("TOR", TOR(Fetch(Machine)))
RunFROMR == Run("FROMR", FROMR(Fetch(Machine)))
RunADD_STORE == Run("ADD_STORE", ADD_STORE(Fetch(Machine)))
RunDSP_FETCH == Run("DSP_FETCH", DSP_FETCH(Fetch(Machine)))
RunDSP_STORE == Run("DSP_STORE", DSP_STORE(Fetch(Machine)))
RunRSP_FETCH == Run("RSP_FETCH", RSP_FETCH(Fetch(Machine)))
RunRSP_STORE == Run("RSP_STORE", RSP_STORE(Fetch(Machine)))

\* (*NativeFuncs[id])() with id outside the table
BadOpcode ==
    /\ fault = "none"
    /\ steps < MaxSteps
    /\ Fetch(Machine).ub = "none"
    /\ Opcode(Machine) >= Len(NativeFuncs)
    /\ id' = Opcode(Machine)
    /\ steps' = steps + 1
    /\ Remember(Opcode(Machine))
    /\ fault' = "badop"
    /\ UNCHANGED <<Memory, IP, RSP, PSP, out, frames, nested>>

\* Mem<uint16_t>(Mem<uint16_t>(IP)) with a cell at 0xFFFF, whose second byte
\* is outside the store: no opcode is dispatched
BadFetch ==
    /\ fault = "none"
    /\ steps < MaxSteps
    /\ Fetch(Machine).ub # "none"
    /\ id' = -1
    /\ steps' = steps + 1
    /\ Remember(-1)
    /\ fault' = Fetch(Machine).ub
    /\ UNCHANGED <<Memory, IP, RSP, PSP, out, frames, nested>>

Next ==
    \/ RunDOCOL \/ RunDOCON \/ RunDOVAR \/ RunEXIT \/ RunDROP \/ RunSWAP \/ RunDUP
    \/ RunROT \/ RunOVER \/ RunADD \/ RunSUB \/ RunMUL \/ RunDIVMOD \/ RunEQU \/ RunLT
    \/ RunAND \/ RunOR \/ RunXOR \/ RunINVERT \/ RunLIT \/ RunSTORE \/ RunFETCH
    \/ RunSTOREBYTE \/ RunFETCHBYTE \/ RunKEY \/ RunEMIT \/ RunBRANCH \/ RunZBRANCH
    \/ RunTOR \/ RunFROMR \/ RunADD_STORE \/ RunDSP_FETCH \/ RunDSP_STORE
    \/ RunRSP_FETCH \/ RunRSP_STORE \/ BadOpcode \/ BadFetch

Spec == Init /\ [][Next]_vars

\* ------------------------------------------------------------------------
\* What a state tells about the cycle that led to it

\* the machine before the last cycle, and before the cycle n cycles earlier
Earlier(n) == hist[Len(hist) - n]

Prev == Earlier(0)

Before(h) ==
    [Memory |-> h.Memory, IP |-> h.IP, RSP |-> h.RSP, PSP |-> h.PSP, Value |-> 0, ub |-> "none"]

\* the last cycle dispatched the primitive called name and met no undefined
\* behaviour
Ran(name) == hist # <<>> /\ id = Op(name) /\ fault = "none"

\* the last cycle dispatched the primitive called name
Dispatched(name) == hist # <<>> /\ id = Op(name)

\* the loop of main() can perform its next cycle: no undefined behaviour has
\* been met, and the fetch leads to a primitive of the table, to an index
\* outside the table or outside the store
CanCycle ==
    /\ fault = "none"
    /\ \/ Fetch(Machine).ub # "none"
       \/ Opcode(Machine) >= Len(NativeFuncs)
       \/ \E k \in 1..Len(NativeFuncs) : Opcode(Machine) = Op(NativeFuncs[k])

\* the bytes in which two stores differ
Changed(mem1, mem2) ==
    {i \in (DOMAIN mem1) \cup (DOMAIN mem2) : ByteAt(mem1, i) # ByteAt(mem2, i)}

\* the cell a parameter-stack pop would return in record s
NextPop(s) == PStack_Pop(s, CellSize).Value

\* the cell a return-stack pop would return in record s
NextRPop(s) == RStack_Pop(s, CellSize).Value

\* the cells n successive parameter-stack pops would return in record s, the
\* first one popped first
RECURSIVE Pops(_, _)
Pops(s, n) ==
    IF n = 0 THEN <<>>
    ELSE <<NextPop(s)>> \o Pops(PStack_Pop(s, CellSize), n - 1)

\* the operand cell of the LIT dispatched from the machine h
Literal(h) == Cell(Before(h), Mem(h.IP + 2))

\* x reduced modulo 2^16 into -32768..32767
Wrap(x) == ((x + 32768) % Word) - 32768

\* ------------------------------------------------------------------------
\* C1: DOCOL, dispatched from the thread cell at A, pushes A + 2 on the
\* return stack (a return-stack pop would return it, RSP is 2 higher); and
\* while only DOCOL and EXIT have moved RSP, the EXIT that leaves a call
\* entered from A with RSP = r sets IP = A + 2 and RSP = r, at every depth.
C1_CallReturn ==
    /\ Ran("DOCOL") =>
          /\ RSP = U16(Prev.RSP + 2)
          /\ NextRPop(Machine) = U16(Prev.IP + 2)
    /\ (Ran("EXIT") /\ Prev.nested /\ Prev.frames # <<>>) =>
          LET f == Prev.frames[Len(Prev.frames)]
          IN  /\ IP = U16(f.A + 2)
              /\ RSP = f.rsp

\* an EXIT has returned from the deepest call of the nest to its caller, a
\* colon word itself, and two more calls are still open
C1_Witness ==
    /\ Ran("EXIT")
    /\ Prev.nested
    /\ Len(Prev.frames) = MaxNest
    /\ IP = U16(Prev.frames[MaxNest].A + 2)
    /\ RSP = 2 * (MaxNest - 1)

\* ------------------------------------------------------------------------
\* C2: when the loop reads target T at IP and dispatches DOCOL, DOCON or
\* DOVAR, the cell the primitive reads back at IP - 2 is T when it reads it,
\* and DOCOL ends with IP = (T + 2) mod 2^16.
C2_ReadBack ==
    /\ Dispatched("DOCOL") =>
          /\ TargetReadBack(Fetch(Before(Prev)), "DOCOL") = Target(Before(Prev))
          /\ fault = "none" => IP = U16(Target(Before(Prev)) + 2)
    /\ Dispatched("DOCON") =>
          TargetReadBack(Fetch(Before(Prev)), "DOCON") = Target(Before(Prev))
    /\ Dispatched("DOVAR") =>
          TargetReadBack(Fetch(Before(Prev)), "DOVAR") = Target(Before(Prev))

\* ------------------------------------------------------------------------
\* C3: DOVAR, dispatched through the code field at T, raises PSP by exactly
\* 2, leaves (T + 2) mod 2^16 as the cell the next parameter-stack pop
\* returns, and does not modify the storage cell at T + 2.
C3_DOVAR ==
    Ran("DOVAR") =>
        LET target == Target(Before(Prev))
        IN  /\ PSP = U16(Prev.PSP + 2)
            /\ NextPop(Machine) = U16(target + 2)
            /\ Cell(Machine, Mem(target + 2)) = Cell(Before(Prev), Mem(target + 2))

\* ------------------------------------------------------------------------
\* C4: a parameter-stack push at PSP = p stores the value in the cell at
\* offset p, a return-stack push at RSP = r stores it at offset r, and no
\* other byte changes; so with fewer than 0x800 cells on each stack no push
\* changes a byte at 0x2000 or above, and no parameter-stack push a byte
\* below 0x1000.
ParamPushers == {"LIT", "DOCON", "DUP", "OVER", "KEY", "DSP_FETCH", "RSP_FETCH"}

ReturnPushers == {"DOCOL"}

C4_PushAddress ==
    /\ \A name \in ParamPushers :
          Ran(name) =>
              /\ Cell(Machine, Prev.PSP) = NextPop(Machine)
              /\ Changed(Prev.Memory, Memory) \subseteq {Prev.PSP, Prev.PSP + 1}
              /\ (Prev.PSP >= 4096 /\ Prev.PSP < 2 * 4096 /\ Prev.RSP < 4096) =>
                    \A i \in Changed(Prev.Memory, Memory) : i >= 4096 /\ i < ImageBase
    /\ \A name \in ReturnPushers :
          Ran(name) =>
              /\ Cell(Machine, Prev.RSP) = NextRPop(Machine)
              /\ Changed(Prev.Memory, Memory) \subseteq {Prev.RSP, Prev.RSP + 1}
              /\ (Prev.PSP >= 4096 /\ Prev.PSP < 2 * 4096 /\ Prev.RSP < 4096) =>
                    \A i \in Changed(Prev.Memory, Memory) : i < ImageBase

\* ------------------------------------------------------------------------
\* C5: dispatched from the thread cell at A, with the signed cell V at A + 2:
\* BRANCH sets IP = (A + 2 + V) mod 2^16 and leaves PSP; 0BRANCH pops one
\* cell, lowers PSP by 2, and sets IP = (A + 2 + V) mod 2^16 when the popped
\* cell is 0 and IP = A + 4 (mod 2^16) when it is not.
C5_Branch ==
    /\ Ran("BRANCH") =>
          /\ IP = U16(Prev.IP + 2 + Int16(Cell(Before(Prev), Mem(Prev.IP + 2))))
          /\ PSP = Prev.PSP
    /\ Ran("ZBRANCH") =>
          /\ PSP = U16(Prev.PSP - 2)
          /\ IP = IF NextPop(Before(Prev)) = 0
                  THEN U16(Prev.IP + 2 + Int16(Cell(Before(Prev), Mem(Prev.IP + 2))))
                  ELSE U16(Prev.IP + 4)

\* 0BRANCH has popped a 0 and branched backward, by the offset -6
C5_Witness ==
    /\ Ran("ZBRANCH")
    /\ NextPop(Before(Prev)) = 0
    /\ Int16(Cell(Before(Prev), Mem(Prev.IP + 2))) = -6
    /\ IP = Prev.IP - 4

\* ------------------------------------------------------------------------
\* C6: every primitive other than DOCOL, EXIT, LIT, BRANCH and 0BRANCH - DOCON
\* and DOVAR among them - leaves IP at the pre-cycle IP + 2 (mod 2^16).
MovesIP == {"DOCOL", "EXIT", "LIT", "BRANCH", "ZBRANCH"}

C6_IPFrame ==
    \A k \in 1..Len(NativeFuncs) :
        (NativeFuncs[k] \notin MovesIP /\ Ran(NativeFuncs[k])) => IP = U16(Prev.IP + 2)

\* DOCON has pushed the constant of BL, a space, and IP is 2 higher
C6_Witness ==
    /\ Ran("DOCON")
    /\ NextPop(Machine) = 32
    /\ IP = Prev.IP + 2

Abs(x) == IF x < 0 THEN -x ELSE x

InUse(s) ==
    { PStack([PSP |-> p], p) + k : p \in {x \in 4096..(s.PSP - 1) : x % 2 = 0}, k \in {0, 1} }
    \cup { RStack([RSP |-> r], r) + k : r \in {x \in 0..(s.RSP - 1) : x % 2 = 0}, k \in {0, 1} }

C10_ByteRoundTrip ==
    /\ Ran("STOREBYTE") =>
          LET a == NextPop(Before(Prev))
              v == NextPop(PStack_Pop(Before(Prev), CellSize))
          IN  /\ PSP = U16(Prev.PSP - 4)
              /\ Changed(Prev.Memory, Memory) \subseteq {a}
              /\ ByteAt(Memory, a) = v % 256
    /\ Ran("FETCHBYTE") => PSP = Prev.PSP
    /\ (/\ Ran("FETCHBYTE")
        /\ Len(hist) >= 3
        /\ Earlier(1).id = Op("LIT")
        /\ Earlier(2).id = Op("STOREBYTE")) =>
          LET a == NextPop(Before(Earlier(2)))
              v == NextPop(PStack_Pop(Before(Earlier(2)), CellSize))
          IN  (NextPop(Before(Prev)) = a /\ a \notin InUse(Before(Prev))) =>
                  NextPop(Machine) = U16(Int8(v))

\* C! of 0x12FF, LIT a, C@ at an address outside the stacks: the next pop
\* returns -1
C10_Witness ==
    /\ Ran("FETCHBYTE")
    /\ Len(hist) >= 3
    /\ Earlier(1).id = Op("LIT")
    /\ Earlier(2).id = Op("STOREBYTE")
    /\ NextPop(Before(Earlier(2))) = NextPop(Before(Prev))
    /\ NextPop(Before(Prev)) \notin InUse(Before(Prev))
    /\ NextPop(PStack_Pop(Before(Earlier(2)), CellSize)) = 4863
    /\ NextPop(Machine) = 65535


\* ------------------------------------------------------------------------
\* C11: after a primitive has pushed a cell v, DUP and then DROP leave PSP at
\* its value right after the push, and leave v as the cell the next pop
\* returns; for a push by LIT, v is the operand cell of the LIT.
C11_DupDrop ==
    (/\ Dispatched("DROP")
     /\ Len(hist) >= 3
     /\ Earlier(1).id = Op("DUP")
     /\ NativeFuncs[Earlier(2).id + 1] \in ParamPushers) =>
        /\ fault = "none"
        /\ PSP = Earlier(1).PSP
        /\ NextPop(Machine) = NextPop(Before(Earlier(1)))
        /\ Earlier(2).id = Op("LIT") =>
              NextPop(Machine) = Cell(Before(Earlier(2)), Mem(Earlier(2).IP + 2))

\* LIT -7, DUP, DROP: PSP is 2 above its value before the LIT and the next
\* pop returns -7
C11_Witness ==
    /\ Ran("DROP")
    /\ Len(hist) >= 3
    /\ Earlier(1).id = Op("DUP")
    /\ Earlier(2).id = Op("LIT")
    /\ Cell(Before(Earlier(2)), Mem(Earlier(2).IP + 2)) = 65529
    /\ PSP = Earlier(2).PSP + 2
    /\ NextPop(Machine) = 65529

\* ------------------------------------------------------------------------
\* C12: with a, b, c pushed in that order by three LITs, the cells successive
\* pops return after one primitive are (top first): DROP b a; SWAP b c a;
\* DUP c c b a; ROT a c b; OVER b c b a; and PSP changes by -2, 0, +2, 0, +2.
C12_StackOps ==
    \A name \in {"DROP", "SWAP", "DUP", "ROT", "OVER"} :
        (/\ Dispatched(name)
         /\ Len(hist) >= 4
         /\ Earlier(1).id = Op("LIT")
         /\ Earlier(2).id = Op("LIT")
         /\ Earlier(3).id = Op("LIT")) =>
            LET a == Literal(Earlier(3))
                b == Literal(Earlier(2))
                c == Literal(Earlier(1))
            IN  /\ fault = "none"
                /\ name = "DROP" => PSP = U16(Prev.PSP - 2) /\ Pops(Machine, 2) = <<b, a>>
                /\ name = "SWAP" => PSP = Prev.PSP /\ Pops(Machine, 3) = <<b, c, a>>
                /\ name = "DUP" => PSP = U16(Prev.PSP + 2) /\ Pops(Machine, 4) = <<c, c, b, a>>
                /\ name = "ROT" => PSP = Prev.PSP /\ Pops(Machine, 3) = <<a, c, b>>
                /\ name = "OVER" => PSP = U16(Prev.PSP + 2) /\ Pops(Machine, 4) = <<b, c, b, a>>

\* ------------------------------------------------------------------------
\* C14: no cycle reads or writes a byte outside offsets 0..65535 of Memory,
\* whatever values DSP!, RSP! or the thread have given PSP, RSP and IP.
C14_InStore == fault # "oob"

AtCall(h) ==
    LET f == h.frames[Len(h.frames)]
    IN  [Memory |-> f.Memory, IP |-> f.A, RSP |-> f.rsp, PSP |-> f.psp, Value |-> 0, ub |-> "none"]

\* the innermost open call in h is a call of the word ,
InComma(h) == h.frames # <<>> /\ Target(AtCall(h)) = CFA.COMMA

C15_Comma ==
    /\ (hist # <<>> /\ InComma(Prev)) => fault = "none"
    /\ (Dispatched("EXIT") /\ InComma(Prev)) =>
          LET c == AtCall(Prev)
              v == NextPop(c)
              here == Cell(c, Mem(CFA.HERE + 2))
          IN  /\ Cell(Machine, Mem(here)) = v
              /\ Cell(Machine, Mem(CFA.HERE + 2)) = U16(here + 2)
              /\ PSP = U16(c.PSP - 2)
              /\ RSP = c.RSP
              /\ IP = U16(c.IP + 2)

\* ------------------------------------------------------------------------
\* C16: >R lowers PSP by 2, raises RSP by 2 and makes the cell it popped the
\* cell a return-stack pop returns and the address a following EXIT loads
\* into IP; R> raises PSP by 2, lowers RSP by 2 and makes the top
\* return-stack cell the cell a parameter-stack pop returns; and R> right
\* after >R restores PSP, RSP and the top parameter-stack cell.
C16_Transfer ==
    /\ Dispatched("TOR") =>
          /\ fault = "none"
          /\ PSP = U16(Prev.PSP - 2)
          /\ RSP = U16(Prev.RSP + 2)
          /\ NextRPop(Machine) = NextPop(Before(Prev))
          /\ EXIT(Machine).IP = NextPop(Before(Prev))
    /\ Dispatched("FROMR") =>
          /\ fault = "none"
          /\ PSP = U16(Prev.PSP + 2)
          /\ RSP = U16(Prev.RSP - 2)
          /\ NextPop(Machine) = NextRPop(Before(Prev))
    /\ (Dispatched("FROMR") /\ Len(hist) >= 2 /\ Earlier(1).id = Op("TOR")) =>
          /\ PSP = Earlier(1).PSP
          /\ RSP = Earlier(1).RSP
          /\ NextPop(Machine) = NextPop(Before(Earlier(1)))

\* >R then R> inside a colon word, with the return address below the moved
\* cell: PSP, RSP and the top cell 7 are as before the >R
C16_Witness ==
    /\ Ran("FROMR")
    /\ Len(hist) >= 2
    /\ Earlier(1).id = Op("TOR")
    /\ Earlier(1).RSP = 2
    /\ RSP = 2
    /\ PSP = Earlier(1).PSP
    /\ NextPop(Before(Earlier(1))) = 7
    /\ NextPop(Machine) = 7

\* ------------------------------------------------------------------------
\* C17: for an address a whose cell lies in the store and overlaps no stack
\* cell in use, ! pops a and v, leaves v in the cell at a, lowers PSP by 4
\* and changes no byte other than those at a and a + 1; +! pops a and n and
\* does the same with the cell's previous value plus n modulo 2^16; @ leaves
\* PSP unchanged; and when !, a push of a by LIT and @ follow one another, @
\* leaves v as the cell the next pop returns.

\* the cell at a lies in the store and shares no byte with a stack cell in
\* use in record s
Apart(s, a) == InStore(a, CellSize) /\ {a, a + 1} \cap InUse(s) = {}

C17_CellAccess ==
    /\ Dispatched("STORE") =>
          LET a == NextPop(Before(Prev))
              v == NextPop(PStack_Pop(Before(Prev), CellSize))
          IN  Apart(Before(Prev), a) =>
                  /\ fault = "none"
                  /\ PSP = U16(Prev.PSP - 4)
                  /\ Changed(Prev.Memory, Memory) \subseteq {a, a + 1}
                  /\ Cell(Machine, a) = v
    /\ Dispatched("ADD_STORE") =>
          LET a == NextPop(Before(Prev))
              n == NextPop(PStack_Pop(Before(Prev), CellSize))
          IN  Apart(Before(Prev), a) =>
                  /\ fault = "none"
                  /\ PSP = U16(Prev.PSP - 4)
                  /\ Changed(Prev.Memory, Memory) \subseteq {a, a + 1}
                  /\ Cell(Machine, a) = U16(Cell(Before(Prev), a) + n)
    /\ (Dispatched("FETCH") /\ Apart(Before(Prev), NextPop(Before(Prev)))) =>
          (fault = "none" /\ PSP = Prev.PSP)
    /\ (/\ Dispatched("FETCH")
        /\ Len(hist) >= 3
        /\ Earlier(1).id = Op("LIT")
        /\ Earlier(2).id = Op("STORE")) =>
          LET a == NextPop(Before(Earlier(2)))
              v == NextPop(PStack_Pop(Before(Earlier(2)), CellSize))
          IN  (/\ NextPop(Before(Prev)) = a
               /\ Apart(Before(Earlier(2)), a)
               /\ Apart(Before(Prev), a)) =>
                  NextPop(Machine) = v

\* ! of 0x8000 at 0xFFFE, the last cell of the store, LIT 0xFFFE, @: the next
\* pop returns 0x8000
C17_Witness ==
    /\ Ran("FETCH")
    /\ Len(hist) >= 3
    /\ Earlier(1).id = Op("LIT")
    /\ Earlier(2).id = Op("STORE")
    /\ NextPop(Before(Earlier(2))) = 65534
    /\ NextPop(PStack_Pop(Before(Earlier(2)), CellSize)) = 32768
    /\ NextPop(Before(Prev)) = 65534
    /\ Apart(Before(Prev), 65534)
    /\ NextPop(Machine) = 32768

\* ------------------------------------------------------------------------
\* C18: LIT, dispatched from the thread cell at A with its operand cell at
\* A + 2 in the store, makes that cell the one the next pop returns, raises
\* PSP by exactly 2 and sets IP = A + 4 (mod 2^16), past the operand.
C18_Literal ==
    (Dispatched("LIT") /\ InStore(Mem(Prev.IP + 2), CellSize)) =>
        /\ fault = "none"
        /\ NextPop(Machine) = Literal(Prev)
        /\ PSP = U16(Prev.PSP + 2)
        /\ IP = U16(Prev.IP + 4)

\* LIT at MainBase has pushed its operand -32768 and IP is past the operand
C18_Witness ==
    /\ Ran("LIT")
    /\ Prev.IP = MainBase
    /\ Literal(Prev) = 32768
    /\ NextPop(Machine) = 32768
    /\ PSP = Prev.PSP + 2
    /\ IP = MainBase + 4

\* ------------------------------------------------------------------------
\* C19: in the image as main() loads it, the link field of every entry from
\* DOCON to PARSE holds the address of the link field of the entry before
\* it, and that of the first entry holds 0.
C19_Links ==
    steps = 0 =>
        \A k \in 1..ParseEntry :
            Cell(Machine, EntryAt(k)) = IF k = 1 THEN 0 ELSE EntryAt(k - 1)
====
